---- MODULE Spec2Model ----
(***************************************************************************)
(* A model of tidygraph's join engine (src/src/tidygraph/_utils/join.py)   *)
(* and of the Tidygraph facade that dispatches to it                       *)
(* (src/src/tidygraph/tidygraph.py).                                       *)
(*                                                                         *)
(* A data frame is a record [cols, rows]: cols is the set of column names, *)
(* rows a sequence of [lab, val] records, lab the row's index label and    *)
(* val a function from cols to values.  Vertex and edge IDs, and row       *)
(* labels, are 0-based as in the program; row k of a sequence is the       *)
(* entity with ID k-1.  NA is the missing value (NaN / None).              *)
(***************************************************************************)
EXTENDS Integers, Sequences, FiniteSets, TLC

VARIABLES
    graph,      \* the igraph.Graph held by the Tidygraph (_graph)
    active,     \* the ActiveState's _active
    pc,         \* "ready" before a call, "done" after a join, "mutated" after a
                \* first mutate, "reactivated" after an activate that follows it,
                \* "chained" after a second mutate
    call,       \* the record of the latest join or mutate call: its inputs, the graph
                \* before it (pre), its outcome (ok, err), the table it stored (data)
                \* and the call before it (first)
    last        \* the argument of the latest activate call, "never" before the first

vars == <<graph, active, pc, call, last>>

NA == "NA"

NODES == "nodes"

EDGES == "edges"

\* ---------------------------------------------------------------- bounds

\* the largest number of rows of a caller table Y
MaxRows == 2

\* the largest number of edges of an initial graph
MaxEdges == 2

\* ------------------------------------------------------- generic helpers

Range(s) == {s[i] : i \in DOMAIN s}

Min2(a, b) == IF a <= b THEN a ELSE b

Max2(a, b) == IF a >= b THEN a ELSE b

RECURSIVE Flatten(_)
Flatten(ss) == IF ss = <<>> THEN <<>> ELSE Head(ss) \o Flatten(Tail(ss))

\* the position of each value in the lexicographic order pandas sorts by;
\* the missing value sorts last
Rank(v) ==
    CASE v = NA -> 1000
      [] v = "a" -> 1
      [] v = "b" -> 2
      [] v = "blue" -> 3
      [] v = "c" -> 4
      [] v = "d" -> 5
      [] v = "e" -> 6
      [] v = "green" -> 7
      [] v = "pink" -> 8
      [] v = "red" -> 9
      [] v = "y1" -> 10
      [] v = "y2" -> 11
      [] v = "y3" -> 12
      [] v = "y4" -> 13
      [] v = "attr_0" -> 15
      [] v = "attr_1" -> 16
      [] v = "z" -> 14
      [] OTHER -> 999

\* lexicographic order on tuples of ranks of equal length
RECURSIVE KeyLess(_, _)
KeyLess(k1, k2) ==
    IF k1 = <<>> THEN FALSE
    ELSE IF Head(k1) # Head(k2) THEN Head(k1) < Head(k2)
    ELSE KeyLess(Tail(k1), Tail(k2))

\* stable insertion of the keyed element e (a record with a key tuple k) into
\* the sequence s sorted by key
RECURSIVE InsertSorted(_, _)
InsertSorted(e, s) ==
    IF s = <<>> THEN <<e>>
    ELSE IF KeyLess(Head(s).k, e.k) THEN <<Head(s)>> \o InsertSorted(e, Tail(s))
    ELSE <<e>> \o s

\* a stable sort of keyed elements by key
RECURSIVE StableSort(_)
StableSort(s) ==
    IF s = <<>> THEN <<>>
    ELSE InsertSorted(Head(s), StableSort(Tail(s)))

\* ------------------------------------------------------------ data frames

\* the columns that hold integers (IDs); their missing value is -1, every
\* other column's is NA
IntCols == {"source", "target", "_index", "_sort_index"}

NAof(c) == IF c \in IntCols THEN -1 ELSE NA

RankOf(c, v) == IF c \in IntCols THEN (IF v = -1 THEN 1000 ELSE v) ELSE Rank(v)

\* the order the columns of a frame are listed in
ColOrder == <<"name", "source", "target", "from", "to", "color", "weight", "label">>

ColSeq(S) == SelectSeq(ColOrder, LAMBDA c : c \in S)

Frame(cols, rows) == [cols |-> cols, rows |-> rows]

NRows(df) == Len(df.rows)

\* pd.concat([a, b]): the rows of a then those of b, labels kept; a column
\* of only one of the frames is missing in the rows of the other
Widen(r, cols) ==
    [lab |-> r.lab,
     val |-> [c \in cols |-> IF c \in DOMAIN r.val THEN r.val[c] ELSE NAof(c)]]

Concat(a, b) ==
    LET cols == a.cols \cup b.cols
    IN  Frame(cols, [k \in 1..(NRows(a) + NRows(b)) |->
                        IF k <= NRows(a) THEN Widen(a.rows[k], cols)
                        ELSE Widen(b.rows[k - NRows(a)], cols)])

\* df.drop(columns=D)
DropCols(df, D) ==
    Frame(df.cols \ D,
          [k \in 1..NRows(df) |->
              [lab |-> df.rows[k].lab,
               val |-> [c \in df.cols \ D |-> df.rows[k].val[c]]]])

\* df.rename(columns={"source": "target", "target": "source"})
SwapEnds(df) ==
    Frame(df.cols,
          [k \in 1..NRows(df) |->
              [lab |-> df.rows[k].lab,
               val |-> [c \in df.cols |->
                           IF c = "source" THEN df.rows[k].val["target"]
                           ELSE IF c = "target" THEN df.rows[k].val["source"]
                           ELSE df.rows[k].val[c]]]])

\* df.dropna(axis=1, how="all"): a column is dropped when every row misses
\* it, so a frame without rows loses every column
DropNaCols(df) ==
    DropCols(df, {c \in df.cols : \A k \in 1..NRows(df) : df.rows[k].val[c] = NAof(c)})

\* df[c] = values, by position
WithCol(df, c, values) ==
    Frame(df.cols \cup {c},
          [k \in 1..NRows(df) |->
              [lab |-> df.rows[k].lab,
               val |-> [d \in df.cols \cup {c} |->
                           IF d = c THEN values[k] ELSE df.rows[k].val[d]]]])

\* df.sort_values(c) / df.sort_index(): stable, missing values last
SortByCol(df, c) ==
    LET keyed == [k \in 1..NRows(df) |->
                     [k |-> <<RankOf(c, df.rows[k].val[c])>>, r |-> df.rows[k]]]
        sorted == StableSort(keyed)
    IN  Frame(df.cols, [k \in 1..NRows(df) |-> sorted[k].r])

SortIndex(df) ==
    LET keyed == [k \in 1..NRows(df) |-> [k |-> <<df.rows[k].lab>>, r |-> df.rows[k]]]
        sorted == StableSort(keyed)
    IN  Frame(df.cols, [k \in 1..NRows(df) |-> sorted[k].r])

\* the key of a row: its values in the columns joined on
KeyOf(r, on) == [i \in 1..Len(on) |-> r.val[on[i]]]

KeyRank(r, on) == [i \in 1..Len(on) |-> RankOf(on[i], r.val[on[i]])]

\* the positions of the rows of df whose key is key, in row order
Matching(df, on, key) ==
    SelectSeq([k \in 1..NRows(df) |-> k], LAMBDA k : KeyOf(df.rows[k], on) = key)

\* the row pairs (i, j) of a left merge: every row i of x, in the order of x,
\* with each matching row j of y in the order of y; j = 0 without a match
LeftPairs(x, y, on) ==
    Flatten([i \in 1..NRows(x) |->
        LET m == Matching(y, on, KeyOf(x.rows[i], on))
        IN  IF m = <<>> THEN << [i |-> i, j |-> 0] >>
            ELSE [n \in 1..Len(m) |-> [i |-> i, j |-> m[n]]]])

\* the row pairs of a right merge: the order of y, each with its matches in
\* the order of x
RightPairs(x, y, on) ==
    Flatten([j \in 1..NRows(y) |->
        LET m == Matching(x, on, KeyOf(y.rows[j], on))
        IN  IF m = <<>> THEN << [i |-> 0, j |-> j] >>
            ELSE [n \in 1..Len(m) |-> [i |-> m[n], j |-> j]]])

\* the key an outer merge sorts the row pair p by
PairKey(x, y, on, p) ==
    IF p.i # 0 THEN KeyRank(x.rows[p.i], on) ELSE KeyRank(y.rows[p.j], on)

\* the row pairs sorted by key, stably
SortPairs(x, y, on, pairs) ==
    LET sorted == StableSort([n \in 1..Len(pairs) |->
                                 [k |-> PairKey(x, y, on, pairs[n]), p |-> pairs[n]]])
    IN  [n \in 1..Len(pairs) |-> sorted[n].p]

\* the row pairs of an outer merge: the keys of both sides, sorted
\* lexicographically
OuterPairs(x, y, on) ==
    SortPairs(x, y, on,
              LeftPairs(x, y, on) \o SelectSeq(RightPairs(x, y, on), LAMBDA p : p.i = 0))

MergePairs(x, y, how, on) ==
    CASE how = "left" -> LeftPairs(x, y, on)
      [] how = "right" -> RightPairs(x, y, on)
      [] how = "inner" -> SelectSeq(LeftPairs(x, y, on), LAMBDA p : p.j # 0)
      [] how = "outer" -> OuterPairs(x, y, on)
      [] how = "left_anti" -> SelectSeq(LeftPairs(x, y, on), LAMBDA p : p.j = 0)

\* the name a column c of one side takes in the merged frame: its own, or
\* with the side's suffix when the other side has a column c too
Suffixed(c, others, suffix) == IF c \in others THEN c \o suffix ELSE c

\* the value of the merged column c in the row made of row p.i of x and row
\* p.j of y
MergedValue(x, y, onset, lsuffix, rsuffix, p, c) ==
    IF c = "_merge"
    THEN (IF p.j = 0 THEN "left_only" ELSE IF p.i = 0 THEN "right_only" ELSE "both")
    ELSE IF c \in onset
    THEN (IF p.i # 0 THEN x.rows[p.i].val[c] ELSE y.rows[p.j].val[c])
    ELSE IF \E d \in x.cols \ onset : Suffixed(d, y.cols, lsuffix) = c
    THEN LET d == CHOOSE d \in x.cols \ onset : Suffixed(d, y.cols, lsuffix) = c
         IN  IF p.i # 0 THEN x.rows[p.i].val[d] ELSE NAof(d)
    ELSE LET d == CHOOSE d \in y.cols \ onset : Suffixed(d, x.cols, rsuffix) = c
         IN  IF p.j # 0 THEN y.rows[p.j].val[d] ELSE NAof(d)

\* the columns of the merged frame
MergedCols(x, y, onset, lsuffix, rsuffix) ==
    onset \cup {Suffixed(c, y.cols, lsuffix) : c \in x.cols \ onset}
          \cup {Suffixed(c, x.cols, rsuffix) : c \in y.cols \ onset}
          \cup {"_merge"}

MergedFrame(x, y, onset, lsuffix, rsuffix, pairs, cols) ==
    Frame(cols, [n \in 1..Len(pairs) |->
                    [lab |-> n - 1,
                     val |-> [c \in cols |->
                                 MergedValue(x, y, onset, lsuffix, rsuffix, pairs[n], c)]]])

\* x.merge(y, how=how, on=on, suffixes=(lsuffix, rsuffix), indicator=True):
\* the key columns once, then the other columns of x and of y, a name that
\* both have taking the side's suffix, then _merge; the result's labels are
\* 0, 1, 2, ...
Merge(x, y, how, on, lsuffix, rsuffix) ==
    MergedFrame(x, y, Range(on), lsuffix, rsuffix, MergePairs(x, y, how, on),
                MergedCols(x, y, Range(on), lsuffix, rsuffix))

\* ------------------------------------------------------------ the graph
(* An igraph.Graph: directed flag, n vertices with IDs 0..n-1, vattr the   *)
(* vertex attributes (attribute name -> the values by vertex ID), edges    *)
(* the (source, target) pairs by edge ID, eattr the edge attributes.       *)

Graph(directed, n, vattr, edges, eattr) ==
    [directed |-> directed, n |-> n, vattr |-> vattr, edges |-> edges, eattr |-> eattr]

\* the function with the empty domain: no attribute
NoAttrs == [c \in {} |-> <<>>]

Seq2(a, b) == <<a, b>>

\* an undirected graph reports each edge with source <= target
Endpoints(directed, e) ==
    IF directed THEN e ELSE Seq2(Min2(e[1], e[2]), Max2(e[1], e[2]))

\* g.get_vertex_dataframe(): one row per vertex, labelled by the vertex ID
get_vertex_dataframe(g) ==
    Frame(DOMAIN g.vattr,
          [k \in 1..g.n |-> [lab |-> k - 1,
                             val |-> [c \in DOMAIN g.vattr |-> g.vattr[c][k]]]])

\* g.get_edge_dataframe(): one row per edge, labelled by the edge ID, with
\* the columns source and target and the edge attributes
get_edge_dataframe(g) ==
    LET cols == {"source", "target"} \cup DOMAIN g.eattr
    IN  Frame(cols,
              [k \in 1..Len(g.edges) |->
                  [lab |-> k - 1,
                   val |-> [c \in cols |->
                               IF c = "source" THEN g.edges[k][1]
                               ELSE IF c = "target" THEN g.edges[k][2]
                               ELSE g.eattr[c][k]]]])

\* g.add_vertices(k): k vertices after the existing ones, their attributes
\* missing
add_vertices(g, k) ==
    [g EXCEPT !.n = g.n + k,
              !.vattr = [c \in DOMAIN g.vattr |-> g.vattr[c] \o [i \in 1..k |-> NA]]]

\* the sequence s without the positions in D
Without(s, D) ==
    LET keep == SelectSeq([k \in 1..Len(s) |-> k], LAMBDA k : k \notin D)
    IN  [k \in 1..Len(keep) |-> s[keep[k]]]

\* g.delete_vertices(ids): the vertices and their incident edges go, the
\* remaining vertices and edges are renumbered densely, in order
delete_vertices(g, ids) ==
    LET vdel == {i + 1 : i \in ids}
        edel == {k \in 1..Len(g.edges) : g.edges[k][1] \in ids \/ g.edges[k][2] \in ids}
        NewId(i) == i - Cardinality({d \in ids : d < i})
        kept == Without(g.edges, edel)
    IN  [g EXCEPT !.n = g.n - Cardinality(vdel \cap 1..g.n),
                  !.vattr = [c \in DOMAIN g.vattr |-> Without(g.vattr[c], vdel)],
                  !.edges = [k \in 1..Len(kept) |-> Seq2(NewId(kept[k][1]), NewId(kept[k][2]))],
                  !.eattr = [c \in DOMAIN g.eattr |-> Without(g.eattr[c], edel)]]

\* g.get_eid(source, target): the ID of an edge between the two vertices (in
\* either direction if the graph is undirected), the lowest such ID; -1
\* stands for the exception raised when there is none
get_eid(g, source, target) ==
    LET want == Endpoints(g.directed, Seq2(source, target))
        hits == {k \in 1..Len(g.edges) : Endpoints(g.directed, g.edges[k]) = want}
    IN  IF hits = {} THEN -1
        ELSE (CHOOSE k \in hits : \A h \in hits : k <= h) - 1

\* g.add_edges(pairs): one edge per pair after the existing ones, in order,
\* their attributes missing
add_edges(g, pairs) ==
    [g EXCEPT !.edges = g.edges \o [k \in 1..Len(pairs) |-> Endpoints(g.directed, pairs[k])],
              !.eattr = [c \in DOMAIN g.eattr |-> g.eattr[c] \o [i \in 1..Len(pairs) |-> NA]]]

\* add_edges raises when an endpoint is no vertex ID of the graph
ValidPairs(g, pairs) ==
    \A k \in 1..Len(pairs) : pairs[k][1] \in 0..(g.n - 1) /\ pairs[k][2] \in 0..(g.n - 1)

\* g.delete_edges(pairs): every pair is resolved to one edge ID by get_eid,
\* and the edges with these IDs are deleted
delete_edges(g, pairs) ==
    LET edel == {get_eid(g, pairs[k][1], pairs[k][2]) + 1 : k \in 1..Len(pairs)}
    IN  [g EXCEPT !.edges = Without(g.edges, edel),
                  !.eattr = [c \in DOMAIN g.eattr |-> Without(g.eattr[c], edel)]]

\* target[col] = values on all vertices or edges: the values are taken in
\* order, reused from the start when there are fewer values than entities and
\* cut when there are more
Assigned(count, values) ==
    [k \in 1..count |-> values[((k - 1) % Len(values)) + 1]]

ReservedNodes == {"vertex ID"}

ReservedEdges == {"node ID", "from", "to", "source", "target"}

\* _apply_attributes without the loop that deletes the old attributes: an
\* attribute that is no column of data stays
ApplyKeepingOld(act, g, data) ==
    LET count == IF act = NODES THEN g.n ELSE Len(g.edges)
        old == IF act = NODES THEN g.vattr ELSE g.eattr
        cols == data.cols \ (IF act = NODES THEN ReservedNodes ELSE ReservedEdges)
        stored == [c \in cols \cup DOMAIN old |->
                      IF c \in cols
                      THEN Assigned(count, [k \in 1..NRows(data) |-> data.rows[k].val[c]])
                      ELSE Assigned(count, old[c])]
    IN  IF act = NODES THEN [g EXCEPT !.vattr = stored] ELSE [g EXCEPT !.eattr = stored]

\* _apply_attributes(active, g, data): every attribute of the active context
\* is deleted, then every column of data that is not reserved is stored
_apply_attributes(act, g, data) ==
    LET reserved == IF act = NODES THEN ReservedNodes ELSE ReservedEdges
        count == IF act = NODES THEN g.n ELSE Len(g.edges)
        cols == data.cols \ reserved
        stored == [c \in cols |->
                      Assigned(count, [k \in 1..NRows(data) |-> data.rows[k].val[c]])]
    IN  IF act = NODES THEN [g EXCEPT !.vattr = stored] ELSE [g EXCEPT !.eattr = stored]

\* storing a column without values on a context that has entities raises
ApplyRaises(act, g, data) ==
    /\ NRows(data) = 0
    /\ data.cols \ (IF act = NODES THEN ReservedNodes ELSE ReservedEdges) # {}
    /\ (IF act = NODES THEN g.n ELSE Len(g.edges)) > 0

\* ----------------------------------------------------- the join engine

\* the result of a call: ok with the graph it leaves and the merged table
\* whose columns were stored, or the exception raised and the graph as it is
\* at that point
Ok(g, data) == [ok |-> TRUE, g |-> g, err |-> "none", data |-> data]

Raise(err, g) == [ok |-> FALSE, g |-> g, err |-> err, data |-> Frame({}, <<>>)]

\* x = g.get_edge_dataframe() if active == EDGES else g.get_vertex_dataframe();
\* x["_index"] = x.index.to_series()
XFrame(act, g) ==
    LET x == IF act = EDGES THEN get_edge_dataframe(g) ELSE get_vertex_dataframe(g)
    IN  WithCol(x, "_index", [k \in 1..NRows(x) |-> x.rows[k].lab])

\* name_to_index: the vertex ID of a name, -1 (missing) for a name that no
\* vertex has
NameToIndex(g, name) ==
    LET hits == {k \in 1..g.n : g.vattr["name"][k] = name}
    IN  IF hits = {} THEN -1 ELSE (CHOOSE k \in hits : TRUE) - 1

\* Series.map(name_to_index) needs the names, the index of name_to_index, to
\* be unique
NamesUnique(g) ==
    \A i, j \in 1..g.n : g.vattr["name"][i] = g.vattr["name"][j] => i = j

\* y["source"] = y["from"].map(name_to_index); y["target"] = y["to"].map(...)
WithEnds(g, y) ==
    WithCol(WithCol(y, "source", [k \in 1..NRows(y) |-> NameToIndex(g, y.rows[k].val["from"])]),
            "target", [k \in 1..NRows(y) |-> NameToIndex(g, y.rows[k].val["to"])])

\* on=None, the default of Tidygraph.join
OnNone == <<>>

\* the columns merged on: the caller's `on`, and for on=None (what
\* Tidygraph.join passes by default) pandas joins on every column that both
\* frames have
OnCols(x, y, on) == IF on = OnNone THEN ColSeq(x.cols \cap y.cols) ELSE on

\* the key columns the explosion handling compares
NameCols(act) == IF act = EDGES THEN {"source", "target"} ELSE {"name"}

\* explosion = x_merged[_merge == "both"].groupby("_index").size(); explosion[explosion > 1]
Explosion(xm) ==
    {i \in {xm.rows[k].val["_index"] : k \in 1..NRows(xm)} :
        Cardinality({k \in 1..NRows(xm) :
            xm.rows[k].val["_merge"] = "both" /\ xm.rows[k].val["_index"] = i}) > 1}

\* the rows of src with the label index: src.loc[index]
Loc(src, index) == SelectSeq(src.rows, LAMBDA r : r.lab = index)

SameOn(r, name, cols) == \A c \in cols : r.val[c] = name.val[c]

\* for one exploded index: the positions in x_merged of the last
\* len(new_filtered) - len(old_filtered) rows of new_filtered
LastExtra(xm, x, name, cols) ==
    LET nf == SelectSeq([k \in 1..NRows(xm) |-> k], LAMBDA k : SameOn(xm.rows[k], name, cols))
        old == Cardinality({k \in 1..NRows(x) : SameOn(x.rows[k], name, cols)})
    IN  {nf[Len(nf) - i + 1] : i \in 1..(Len(nf) - old)}

\* the loop over explosion.index: the rows to mark "right_only"; src is the
\* frame the row called name is looked up in by the exploded index
ToMark(xm, x, src, cols) ==
    UNION {LastExtra(xm, x, Loc(src, i)[1], cols) : i \in Explosion(xm)}

\* the lookup src.loc[index] raises KeyError when src has no row labelled index
LookupFails(xm, src) == \E i \in Explosion(xm) : Loc(src, i) = <<>>

\* x_merged.at[index, "_merge"] = "right_only" for the marked rows
Marked(xm, M) ==
    Frame(xm.cols,
          [k \in 1..NRows(xm) |->
              IF k \in M THEN [xm.rows[k] EXCEPT !.val["_merge"] = "right_only"]
              ELSE xm.rows[k]])

IsNew(r) == r.val["_merge"] = "right_only"

IsOld(r) == r.val["_merge"] # "right_only"

\* df[df["_merge"] == "right_only"], labels kept
NewRows(df) == Frame(df.cols, SelectSeq(df.rows, IsNew))

\* df[df["_merge"] != "right_only"], labels kept
OldRows(df) == Frame(df.cols, SelectSeq(df.rows, IsOld))

\* the columns whose name starts with "_"
Underscored(cols) == cols \cap {"_index", "_merge", "_sort_index"}

\* new_rows[["source", "target"]].to_numpy()
EndPairs(df) == [k \in 1..NRows(df) |-> Seq2(df.rows[k].val["source"], df.rows[k].val["target"])]

\* the attribute names of the model, and the column names a merge can make
\* of them
AttrNames == {"name", "color", "weight"}

Suffixes == {".x", ".y", "_l", "_r"}

ColNames == AttrNames \cup {a \o sfx : a \in AttrNames, sfx \in Suffixes}

\* col.endswith(".x"), and base = col[:-2]
EndsWithX(c) == \E base \in ColNames : c = base \o ".x"

BaseOf(c) == CHOOSE base \in ColNames : c = base \o ".x"

\* _apply_attributes, or the exception its assignment raises
Apply(act, g, data) ==
    IF ApplyRaises(act, g, data) THEN Raise("ValueError", g)
    ELSE Ok(_apply_attributes(act, g, data), data)

\* the loop over explosion.index applied to the merged frame xm
MarkExplosion(xm, x, src, cols) == Marked(xm, ToMark(xm, x, src, cols))

\* the additions made as in node context whatever the active context: one
\* vertex per new row
AddNewVertices(act, g, new_rows) == add_vertices(g, NRows(new_rows))

\* g.add_vertices(len(new_rows)) or g.add_edges(new_rows[["source", "target"]])
AddNew(act, g, new_rows) ==
    IF act = NODES THEN add_vertices(g, NRows(new_rows))
    ELSE add_edges(g, EndPairs(new_rows))

\* the branch guarded by `if not new_rows.empty`
AddNewIfAny(act, g, new_rows) ==
    IF NRows(new_rows) = 0 THEN g ELSE AddNew(act, g, new_rows)

\* the branch guarded by `if not to_remove.empty`: g.delete_vertices or
\* g.delete_edges of the rows of to_remove
Remove(act, g, to_remove) ==
    IF NRows(to_remove) = 0 THEN g
    ELSE IF act = NODES
    THEN delete_vertices(g, {to_remove.rows[k].val["_index"] : k \in 1..NRows(to_remove)})
    ELSE delete_edges(g, EndPairs(to_remove))

\* pd.concat([x_merged, new_rows]) without the columns starting with "_"
JoinedData(cols, old_rows, new_rows) ==
    DropCols(Concat(old_rows, new_rows), Underscored(cols))

\* outer_join's end with an add_edges that takes any endpoint: a pair with a
\* missing endpoint becomes an edge
OuterAddUnchecked(act, g, cols, sorted, new_rows) ==
    IF "_merge" \notin cols THEN Raise("KeyError", g)
    ELSE IF act = EDGES /\ ~({"source", "target"} \subseteq cols) THEN Raise("KeyError", g)
    ELSE Apply(act, AddNew(act, g, new_rows), JoinedData(cols, sorted, new_rows))

\* outer_join, lines 98-111: the new vertices or edges are added and the
\* attributes applied; sorted are the rows kept for the existing entities
OuterAdd(act, g, cols, sorted, new_rows) ==
    IF "_merge" \notin cols THEN Raise("KeyError", g)
    ELSE IF act = NODES
    THEN Apply(act, AddNew(act, g, new_rows), JoinedData(cols, sorted, new_rows))
    ELSE IF ~({"source", "target"} \subseteq cols) THEN Raise("KeyError", g)
    ELSE IF ~ValidPairs(g, EndPairs(new_rows)) THEN Raise("TypeError", g)
    ELSE Apply(act, AddNew(act, g, new_rows), JoinedData(cols, sorted, new_rows))

\* the rows marked new go after the others, which are sorted by index
OuterSplit(act, g, dropped) ==
    OuterAdd(act, g, dropped.cols, SortIndex(OldRows(dropped)), NewRows(dropped))

OuterTail(act, g, x_merged) == OuterSplit(act, g, DropNaCols(x_merged))

\* outer_join, lines 43-74: the undirected edge case.  x is left-merged with
\* y and its mirror; the rows of y that match no row of that result or of
\* its mirror are the new rows
IsLeftOnly(r) == r.val["_merge"] = "left_only"

\* df[df["_merge"] == "left_only"], labels kept
LeftOnlyRows(df) == Frame(df.cols, SelectSeq(df.rows, IsLeftOnly))

\* y.merge(x_merged_with_mirror.drop(columns="_merge"), how="left"), the
\* rows with _merge == "left_only"
UnmatchedOfY(x_merged, y, on, lsuffix, rsuffix) ==
    LeftOnlyRows(Merge(y, DropCols(Concat(x_merged, SwapEnds(x_merged)), {"_merge"}), "left",
                       on, lsuffix, rsuffix))

\* the columns ending in ".x"
XCols(cols) == {c \in cols : EndsWithX(c)}

\* the columns of new_rows after the ".x"/".y" pairs are combined and the
\* selection new_rows[y.columns]
KeptCols(cols, ycols) ==
    ((cols \cup {BaseOf(c) : c \in XCols(cols)})
        \ (XCols(cols) \cup {BaseOf(c) \o ".y" : c \in XCols(cols)})) \cap ycols

\* new_rows[base] = new_rows[base + ".x"].combine_first(new_rows[base + ".y"]),
\* and _merge = "right_only"
Combined(new0, keep) ==
    Frame(keep \cup {"_merge"},
          [k \in 1..NRows(new0) |->
              [lab |-> new0.rows[k].lab,
               val |-> [c \in keep \cup {"_merge"} |->
                   IF c = "_merge" THEN "right_only"
                   ELSE IF c \o ".x" \in new0.cols
                   THEN (IF new0.rows[k].val[c \o ".x"] # NAof(c)
                         THEN new0.rows[k].val[c \o ".x"]
                         ELSE new0.rows[k].val[c \o ".y"])
                   ELSE new0.rows[k].val[c]]]])

\* new_rows[base + ".y"] raises when there is no such column
CombineRaises(cols) == \E c \in XCols(cols) : BaseOf(c) \o ".y" \notin cols

OuterUndirectedNew(x_merged, y, new0) ==
    [raises |-> CombineRaises(new0.cols),
     frame |-> Concat(x_merged, Combined(new0, KeptCols(new0.cols, y.cols)))]

OuterUndirectedMerged(x_merged, y, on, lsuffix, rsuffix) ==
    OuterUndirectedNew(x_merged, y, UnmatchedOfY(x_merged, y, on, lsuffix, rsuffix))

OuterUndirected(x, y, on, lsuffix, rsuffix) ==
    OuterUndirectedMerged(
        MarkExplosion(Merge(x, Concat(y, SwapEnds(y)), "left", on, lsuffix, rsuffix),
                      x, x, {"source", "target"}),
        y, on, lsuffix, rsuffix)

\* the end of the undirected case: a KeyError, or the tail of outer_join
OuterUndirectedTail(act, g, u) ==
    IF u.raises THEN Raise("KeyError", g) ELSE OuterTail(act, g, u.frame)

\* outer_join merging with how="left" where it merges with how="outer": the
\* rows of y that match nothing are lost
OuterMergedAsLeft(act, g, x, y, on, lsuffix, rsuffix) ==
    IF act = EDGES /\ ~g.directed
    THEN OuterUndirectedTail(act, g, OuterUndirected(x, y, on, lsuffix, rsuffix))
    ELSE OuterTail(act, g,
             MarkExplosion(Merge(x, y, "left", on, lsuffix, rsuffix), x, x, NameCols(act)))

\* outer_join once x and y are prepared
OuterMerged(act, g, x, y, on, lsuffix, rsuffix) ==
    IF act = EDGES /\ ~g.directed
    THEN OuterUndirectedTail(act, g, OuterUndirected(x, y, on, lsuffix, rsuffix))
    ELSE OuterTail(act, g,
             MarkExplosion(Merge(x, y, "outer", on, lsuffix, rsuffix), x, x, NameCols(act)))

\* y as the edge joins merge it: source and target for from and to
EdgeY(g, y0) == DropCols(WithEnds(g, y0), {"from", "to"})

\* the columns merged on
JoinOn(act, x, y, on0) == IF act = EDGES THEN <<"source", "target">> ELSE OnCols(x, y, on0)

\* outer_join(active, g, y, on, lsuffix, rsuffix)
outer_join(act, g, y0, on0, lsuffix, rsuffix) ==
    IF act = EDGES
    THEN IF ~NamesUnique(g) THEN Raise("InvalidIndexError", g)
         ELSE OuterMerged(act, g, XFrame(act, g), EdgeY(g, y0), <<"source", "target">>,
                          lsuffix, rsuffix)
    ELSE OuterMerged(act, g, XFrame(act, g), y0, OnCols(XFrame(act, g), y0, on0),
                     lsuffix, rsuffix)

\* the same lines without the pd.concat([x_merged, new_rows]) that moves the
\* rows marked new behind the others: the rows stay in the order of the merge
SplitInPlace(dropped) ==
    IF NRows(dropped) = 0 THEN [new_rows |-> dropped, data |-> dropped]
    ELSE [new_rows |-> NewRows(dropped),
          data |-> DropCols(dropped, Underscored(dropped.cols))]

\* inner_join, left_join and right_join, the lines after the explosion loop
\* up to the concat: x_merged.dropna(axis=1, how="all"); the rows marked new
\* go after the others; the columns starting with "_" are dropped.  A frame
\* without rows has lost _merge with every other column and has no new row
SplitDropped(dropped) ==
    IF NRows(dropped) = 0 THEN [new_rows |-> dropped, data |-> dropped]
    ELSE [new_rows |-> NewRows(dropped),
          data |-> JoinedData(dropped.cols, OldRows(dropped), NewRows(dropped))]

Split(x_merged) == SplitDropped(DropNaCols(x_merged))

\* y = pd.concat([y, y_mirror]) on an undirected graph
Mirrored(directed, df) == IF directed THEN df ELSE Concat(df, SwapEnds(df))

\* y as inner_join and left_join merge it
JoinY(act, g, y0) == IF act = EDGES THEN Mirrored(g.directed, EdgeY(g, y0)) ELSE y0

\* the end of inner_join and left_join: the new vertices or edges are added
\* to g and the attributes applied
Finish(act, g, s) == Apply(act, AddNewIfAny(act, g, s.new_rows), s.data)

\* inner_join once x and y are prepared
InnerMerged(act, g, x, y, on, lsuffix, rsuffix) ==
    Finish(act, Remove(act, g, Merge(x, y, "left_anti", on, lsuffix, rsuffix)),
           Split(MarkExplosion(Merge(x, y, "inner", on, lsuffix, rsuffix), x, x, NameCols(act))))

InnerPrepared(act, g, x, y, on0, lsuffix, rsuffix) ==
    InnerMerged(act, g, x, y, JoinOn(act, x, y, on0), lsuffix, rsuffix)

\* inner_join(active, g, y, on, lsuffix, rsuffix)
inner_join(act, g, y0, on0, lsuffix, rsuffix) ==
    IF act = EDGES /\ ~NamesUnique(g) THEN Raise("InvalidIndexError", g)
    ELSE InnerPrepared(act, g, XFrame(act, g), JoinY(act, g, y0), on0, lsuffix, rsuffix)

\* left_join once x and y are prepared
LeftMerged(act, g, x, y, on, lsuffix, rsuffix) ==
    Finish(act, g,
           Split(MarkExplosion(Merge(x, y, "left", on, lsuffix, rsuffix), x, x, NameCols(act))))

LeftPrepared(act, g, x, y, on0, lsuffix, rsuffix) ==
    LeftMerged(act, g, x, y, JoinOn(act, x, y, on0), lsuffix, rsuffix)

\* left_join(active, g, y, on, lsuffix, rsuffix)
left_join(act, g, y0, on0, lsuffix, rsuffix) ==
    IF act = EDGES /\ ~NamesUnique(g) THEN Raise("InvalidIndexError", g)
    ELSE LeftPrepared(act, g, XFrame(act, g), JoinY(act, g, y0), on0, lsuffix, rsuffix)

\* _get_edge_id(g, source, target): g.get_eid, None (missing) when it raises
_get_edge_id(g, source, target) ==
    IF source \in 0..(g.n - 1) /\ target \in 0..(g.n - 1) THEN get_eid(g, source, target)
    ELSE -1

\* a name that no vertex has makes source or target a float column
HasUnknownEnd(y) ==
    \E k \in 1..NRows(y) : y.rows[k].val["source"] = -1 \/ y.rows[k].val["target"] = -1

\* y["_sort_index"] of an edge table: the ID of the edge each row names
EdgeSortIndex(g, y1) ==
    [k \in 1..NRows(y1) |->
        IF HasUnknownEnd(y1) THEN -1
        ELSE _get_edge_id(g, y1.rows[k].val["source"], y1.rows[k].val["target"])]

\* y.sort_values("_sort_index").drop(columns="_sort_index")
SortedBy(y, sort_index) ==
    DropCols(SortByCol(WithCol(y, "_sort_index", sort_index), "_sort_index"), {"_sort_index"})

SortedEdgeY(g, y1) == SortedBy(y1, EdgeSortIndex(g, y1))

\* right_join, lines 307-327: y sorted by the index of the existing edge or
\* vertex each row names, the rows naming none last; the labels of y stay
SortedY(act, g, y0) ==
    IF act = EDGES THEN SortedEdgeY(g, WithEnds(g, y0))
    ELSE SortedBy(y0, [k \in 1..NRows(y0) |-> NameToIndex(g, y0.rows[k].val["name"])])

\* y[["source", "target"]].notna().all().all()
EndsKnown(y) == ~HasUnknownEnd(y)

\* to_remove of right_join: the rows of x matching no row of y and, on an
\* undirected graph, no mirrored row of y
MirrorAnti(act, g, tr0, y, on, lsuffix, rsuffix) ==
    IF act = EDGES /\ ~g.directed
    THEN Merge(tr0, DropCols(SwapEnds(y), y.cols \ {"source", "target"}), "left_anti", on,
               lsuffix, rsuffix)
    ELSE tr0

ToRemove(act, g, x, y, on, lsuffix, rsuffix) ==
    MirrorAnti(act, g, Merge(x, y, "left_anti", on, lsuffix, rsuffix), y, on, lsuffix, rsuffix)

\* the end of right_join: g1 is the graph after the deletions
RightFinish(act, g1, s) ==
    IF act = EDGES /\ ~({"source", "target"} \subseteq s.new_rows.cols)
    THEN Raise("KeyError", g1)
    ELSE Apply(act, AddNew(act, g1, s.new_rows), s.data)

\* right_join from the merged frame xm0 on
RightMarked(act, g, x, y, on, lsuffix, rsuffix, xm0) ==
    IF LookupFails(xm0, y) THEN Raise("KeyError", g)
    ELSE RightFinish(act, Remove(act, g, ToRemove(act, g, x, y, on, lsuffix, rsuffix)),
                     Split(MarkExplosion(xm0, x, y, NameCols(act))))

RightMerged(act, g, x, y, on, lsuffix, rsuffix) ==
    RightMarked(act, g, x, y, on, lsuffix, rsuffix, Merge(x, y, "right", on, lsuffix, rsuffix))

RightPrepared(act, g, x, y, on0, lsuffix, rsuffix) ==
    RightMerged(act, g, x, y, JoinOn(act, x, y, on0), lsuffix, rsuffix)

\* x and y as right_join merges them
RightX(act, g) == IF act = EDGES THEN Mirrored(g.directed, XFrame(act, g)) ELSE XFrame(act, g)

RightY(act, ys) == IF act = EDGES THEN DropCols(ys, {"from", "to"}) ELSE ys

RightSorted(act, g, ys, on0, lsuffix, rsuffix) ==
    IF act = EDGES /\ ~EndsKnown(ys) THEN Raise("TidygraphValueError", g)
    ELSE RightPrepared(act, g, RightX(act, g), RightY(act, ys), on0, lsuffix, rsuffix)

\* right_join(active, g, y, on, lsuffix, rsuffix)
right_join(act, g, y0, on0, lsuffix, rsuffix) ==
    IF ~NamesUnique(g) THEN Raise("InvalidIndexError", g)
    ELSE RightSorted(act, g, SortedY(act, g, y0), on0, lsuffix, rsuffix)

\* ------------------------------------------------- the caller's table
(* A join function receives the caller's DataFrame itself (to_pandas of a   *)
(* pandas frame is that frame) and assigns to y in place. The two frames    *)
(* of a call are df, the caller's, and y, the one the function works on.    *)

\* the statements that change y in place: y["source"], y["target"],
\* y.drop(columns=["from", "to"], inplace=True) in edge context,
\* y["_sort_index"] in right_join, where the drop comes after y is rebound
AssignedInPlace(act, g, y, how) ==
    IF act = EDGES /\ ~NamesUnique(g) THEN y
    ELSE IF act = EDGES /\ how = "right"
    THEN WithCol(WithEnds(g, y), "_sort_index", EdgeSortIndex(g, WithEnds(g, y)))
    ELSE IF act = EDGES THEN EdgeY(g, y)
    ELSE IF how = "right"
    THEN WithCol(y, "_sort_index", [k \in 1..NRows(y) |-> NameToIndex(g, y.rows[k].val["name"])])
    ELSE y

\* the frames of a call whose function assigns to the caller's frame: y is
\* df itself
FramesAliased(act, g, df, how) ==
    [df |-> AssignedInPlace(act, g, df, how), y |-> AssignedInPlace(act, g, df, how)]

\* the frames of a call after `y = y.copy()` and the assignments in place: y
\* is a frame of its own with the content of df
Frames(act, g, df, how) == [df |-> df, y |-> AssignedInPlace(act, g, df, how)]

\* ------------------------------------------------------------ Tidygraph

RESERVED_JOIN_KEYWORD == "_index"

JoinKinds == {"outer", "inner", "left", "right"}

\* Tidygraph.join that drops the column named as the reserved join keyword
\* from the caller table instead of raising
JoinDroppingKeyword(act, g, df, on, how, lsuffix, rsuffix) ==
    LET kept == DropCols(df, {RESERVED_JOIN_KEYWORD})
    IN  IF act = EDGES /\ ~({"from", "to"} \subseteq kept.cols)
        THEN Raise("TidygraphValueError", g)
        ELSE IF act # EDGES /\ "name" \notin kept.cols THEN Raise("TidygraphValueError", g)
        ELSE CASE how = "outer" -> outer_join(act, g, kept, on, lsuffix, rsuffix)
               [] how = "inner" -> inner_join(act, g, kept, on, lsuffix, rsuffix)
               [] how = "left" -> left_join(act, g, kept, on, lsuffix, rsuffix)
               [] how = "right" -> right_join(act, g, kept, on, lsuffix, rsuffix)
               [] OTHER -> Raise("TidygraphValueError", g)

\* Tidygraph.join that returns without joining, instead of raising, when the
\* caller table lacks a required column
JoinSkippingIncomplete(act, g, df, on, how, lsuffix, rsuffix) ==
    IF RESERVED_JOIN_KEYWORD \in df.cols THEN Raise("TidygraphValueError", g)
    ELSE IF act = EDGES /\ ~({"from", "to"} \subseteq df.cols) THEN Ok(g, df)
    ELSE IF act # EDGES /\ "name" \notin df.cols THEN Ok(g, df)
    ELSE CASE how = "outer" -> outer_join(act, g, df, on, lsuffix, rsuffix)
           [] how = "inner" -> inner_join(act, g, df, on, lsuffix, rsuffix)
           [] how = "left" -> left_join(act, g, df, on, lsuffix, rsuffix)
           [] how = "right" -> right_join(act, g, df, on, lsuffix, rsuffix)
           [] OTHER -> Raise("TidygraphValueError", g)

\* Tidygraph.join that takes a join kind it does not know for the default,
\* "left", instead of raising
JoinDefaultingToLeft(act, g, df, on, how, lsuffix, rsuffix) ==
    IF RESERVED_JOIN_KEYWORD \in df.cols THEN Raise("TidygraphValueError", g)
    ELSE IF act = EDGES /\ ~({"from", "to"} \subseteq df.cols)
    THEN Raise("TidygraphValueError", g)
    ELSE IF act # EDGES /\ "name" \notin df.cols THEN Raise("TidygraphValueError", g)
    ELSE CASE how = "outer" -> outer_join(act, g, df, on, lsuffix, rsuffix)
           [] how = "inner" -> inner_join(act, g, df, on, lsuffix, rsuffix)
           [] how = "right" -> right_join(act, g, df, on, lsuffix, rsuffix)
           [] OTHER -> left_join(act, g, df, on, lsuffix, rsuffix)

\* Tidygraph.join(df, on, how, lsuffix, rsuffix) on the active context act
join(act, g, df, on, how, lsuffix, rsuffix) ==
    IF RESERVED_JOIN_KEYWORD \in df.cols THEN Raise("TidygraphValueError", g)
    ELSE IF act = EDGES /\ ~({"from", "to"} \subseteq df.cols)
    THEN Raise("TidygraphValueError", g)
    ELSE IF act # EDGES /\ "name" \notin df.cols THEN Raise("TidygraphValueError", g)
    ELSE CASE how = "outer" -> outer_join(act, g, df, on, lsuffix, rsuffix)
           [] how = "inner" -> inner_join(act, g, df, on, lsuffix, rsuffix)
           [] how = "left" -> left_join(act, g, df, on, lsuffix, rsuffix)
           [] how = "right" -> right_join(act, g, df, on, lsuffix, rsuffix)
           [] OTHER -> Raise("TidygraphValueError", g)

\* the caller's table after Tidygraph.join: a call that raises before the
\* dispatch does not reach a join function
TableAfter(act, g, df, how) ==
    IF RESERVED_JOIN_KEYWORD \in df.cols THEN df
    ELSE IF act = EDGES /\ ~({"from", "to"} \subseteq df.cols) THEN df
    ELSE IF act # EDGES /\ "name" \notin df.cols THEN df
    ELSE IF how \notin JoinKinds THEN df
    ELSE Frames(act, g, df, how).df

\* `target[attribute] = modified_df[attribute]` for one column only, the last
\* of the frame, whose values every written attribute receives
StoredFromLast(count, old, modified, attributes) ==
    [c \in DOMAIN old \cup attributes |->
        IF c \in attributes
        THEN Assigned(count, [k \in 1..NRows(modified) |->
                 modified.rows[k].val[ColSeq(modified.cols)[Len(ColSeq(modified.cols))]]])
        ELSE old[c]]

\* for attribute in attributes: target[attribute] = modified_df[attribute]
Stored(count, old, modified, attributes) ==
    [c \in DOMAIN old \cup attributes |->
        IF c \in attributes
        THEN Assigned(count, [k \in 1..NRows(modified) |-> modified.rows[k].val[c]])
        ELSE old[c]]

\* the callable of a mutation: lambda x: x[src] + "!", a missing value
\* staying missing
Derived(v) == IF v = NA THEN NA ELSE v \o "!"

\* start_index: the position in columns of the first that is not reserved,
\* 0 for None
StartIndex(columns, reserved) ==
    IF \A i \in 1..Len(columns) : columns[i] \in reserved THEN 0
    ELSE CHOOSE i \in 1..Len(columns) :
             /\ columns[i] \notin reserved
             /\ \A j \in 1..(i - 1) : columns[j] \in reserved

\* Tidygraph.mutate(**{attr: lambda x: x[src] + "!"}) on the context act
mutate(act, g, attr, src) ==
    LET data_as_df == IF act = NODES THEN get_vertex_dataframe(g) ELSE get_edge_dataframe(g)
    IN  IF src \notin data_as_df.cols THEN Raise("TidygraphValueError", g)
        ELSE LET modified_df == WithCol(data_as_df, attr,
                                    [k \in 1..NRows(data_as_df) |->
                                        Derived(data_as_df.rows[k].val[src])])
                 reserved == IF act = NODES THEN ReservedNodes ELSE ReservedEdges
                 columns == ColSeq(modified_df.cols)
                 start_index == StartIndex(columns, reserved)
                 attributes == {columns[i] : i \in start_index..Len(columns)}
             IN  IF start_index = 0 THEN Raise("TidygraphValueError", g)
                 ELSE [ok |-> TRUE, err |-> "none", data |-> modified_df,
                       g |-> IF act = NODES
                             THEN [g EXCEPT !.vattr = Stored(g.n, g.vattr, modified_df, attributes)]
                             ELSE [g EXCEPT !.eattr = Stored(Len(g.edges), g.eattr,
                                                            modified_df, attributes)]]

\* ----------------------------------------------------- the inputs explored

\* the names of the vertices of the initial graphs
GraphNames == {"a", "b", "c"}

\* the vertex attribute color of the vertex called name
ColorOf(name) ==
    CASE name = "a" -> "red" [] name = "b" -> "blue" [] name = "c" -> "green" [] OTHER -> NA

\* the edge attribute color of the k-th edge
EdgeColors == <<"red", "blue", "green", "pink">>

Injective(s) == \A i, j \in DOMAIN s : s[i] = s[j] => i = j

\* every order of every non-empty set of names: the names of a graph are
\* unique and in no particular order
VertexOrders ==
    {s \in UNION {[1..k -> GraphNames] : k \in 1..Cardinality(GraphNames)} : Injective(s)}

SeqsUpTo(S, n) == UNION {[1..k -> S] : k \in 0..n}

VertexAttrs(names, colored) ==
    IF colored
    THEN [c \in {"name", "color"} |->
             IF c = "name" THEN names ELSE [k \in 1..Len(names) |-> ColorOf(names[k])]]
    ELSE [c \in {"name"} |-> names]

EdgeAttrs(edges) ==
    IF Len(edges) > 0
    THEN [c \in {"color"} |-> [k \in 1..Len(edges) |-> EdgeColors[k]]]
    ELSE NoAttrs

\* the graphs the node joins are explored on: the names in every order, each
\* vertex with a color, the vertices joined in a path
PathEdges(n) == [k \in 1..(n - 1) |-> Seq2(k - 1, k)]

NodeGraphs ==
    {Graph(FALSE, Len(names), VertexAttrs(names, TRUE), PathEdges(Len(names)), NoAttrs) :
        names \in VertexOrders}

\* the graphs the edge joins are explored on: vertices a, b, c, directed and
\* undirected, every list of up to MaxEdges edges among these pairs (parallel
\* edges, a reversed pair and a self-loop included), each edge with a color
EdgePairs == {Seq2(0, 1), Seq2(1, 0), Seq2(0, 0)}

EdgeGraphs ==
    {Graph(directed, 3, VertexAttrs(<<"a", "b", "c">>, FALSE),
           [k \in 1..Len(edges) |-> Endpoints(directed, edges[k])],
           EdgeAttrs(edges)) :
        directed \in BOOLEAN, edges \in SeqsUpTo(EdgePairs, MaxEdges)}

\* the attribute columns of a caller table: none, or a column color, which
\* the vertices of NodeGraphs and the edges of EdgeGraphs have and the edges
\* of NodeGraphs and the vertices of EdgeGraphs do not
YExtras == {{}, {"color"}}

\* the color of the k-th row of a caller table of an edge join
YValues == <<"y1", "y2", "y3", "y4">>

\* the color of the k-th row of a caller table of a node join
YColors == <<"red", "pink", "blue", "green">>

\* the caller tables of a node join: 1 to MaxRows rows, labelled 0, 1, ...,
\* naming existing and new vertices
YNames == {"a", "b", "d", "e"}

NodeTables ==
    {Frame({"name"} \cup extra,
           [k \in 1..Len(ns) |->
               [lab |-> k - 1,
                val |-> [c \in {"name"} \cup extra |->
                            IF c = "name" THEN ns[k] ELSE YColors[k]]]]) :
        ns \in SeqsUpTo(YNames, MaxRows) \ {<<>>}, extra \in YExtras}

\* the caller tables of an edge join: 1 to MaxRows rows naming pairs of
\* vertices, one of them unknown to the graph
YPairs == {<<"a", "b">>, <<"b", "a">>, <<"a", "c">>, <<"a", "a">>, <<"a", "z">>}

EdgeTables ==
    {Frame({"from", "to"} \cup extra,
           [k \in 1..Len(ps) |->
               [lab |-> k - 1,
                val |-> [c \in {"from", "to"} \cup extra |->
                            IF c = "from" THEN ps[k][1]
                            ELSE IF c = "to" THEN ps[k][2]
                            ELSE YValues[k]]]]) :
        ps \in SeqsUpTo(YPairs, MaxRows) \ {<<>>}, extra \in YExtras}

Tables(act) == IF act = NODES THEN NodeTables ELSE EdgeTables

\* caller tables with a column named as the internal join-tracking key: the
\* one-row tables without attribute columns, with that column added
IndexTables(act) ==
    {WithCol(df, RESERVED_JOIN_KEYWORD, [k \in 1..NRows(df) |-> k]) :
        df \in {t \in Tables(act) : NRows(t) = 1 /\ "color" \notin t.cols}}

\* the reserved names a caller table is given as an attribute column: the
\* vertex identity column and "from" in node context, the edge identity
\* column in edge context
ReservedColumns(act) == IF act = NODES THEN {"vertex ID", "from"} ELSE {"node ID"}

\* caller tables with a reserved name as an attribute column: the one-row
\* tables without other attribute columns, with that column added
ReservedTables(act) ==
    {WithCol(df, c, [k \in 1..NRows(df) |-> "b"]) :
        df \in {t \in Tables(act) : NRows(t) = 1 /\ "color" \notin t.cols},
        c \in ReservedColumns(act)}

\* caller tables without the columns the context act requires: the one-row
\* tables of the other context and, for edges, the tables with "from" alone
IncompleteTables(act) ==
    IF act = NODES THEN {t \in EdgeTables : NRows(t) = 1 /\ "color" \notin t.cols}
    ELSE {t \in NodeTables : NRows(t) = 1}
         \cup {DropCols(t, {"to"}) : t \in {u \in EdgeTables : NRows(u) = 1}}

\* a join kind that Tidygraph.join does not know (pandas has how="cross")
UnknownKinds == {"cross"}

\* the caller tables of one row
OneRowTables(act) == {t \in Tables(act) : NRows(t) = 1}

\* an `on` that is not the identity key of either context: an attribute
\* column
AttributeOn == <<"color">>

\* the caller table that names a and b with the colors these vertices have
\* in NodeGraphs
TwoColored ==
    Frame({"name", "color"},
          [k \in 1..2 |->
              [lab |-> k - 1,
               val |-> [c \in {"name", "color"} |->
                           IF c = "name" THEN <<"a", "b">>[k]
                           ELSE ColorOf(<<"a", "b">>[k])]]])

\* the caller tables joined on an attribute column: those of one row that
\* have the column and, for the node joins, TwoColored
OnTables(act) ==
    {t \in OneRowTables(act) : Range(AttributeOn) \subseteq t.cols}
        \cup (IF act = NODES THEN {TwoColored} ELSE {})

\* x.merge(y, on=on) finds the columns of on in x: in edge context on is
\* replaced before the merge
OnInX(act, g, on) == act = EDGES \/ Range(on) \subseteq DOMAIN g.vattr

\* the caller table without rows that has the columns the context requires
EmptyTable(act) == Frame(IF act = NODES THEN {"name"} ELSE {"from", "to"}, <<>>)

\* the graph's own current table as a caller table: the vertex table, or the
\* edge table with its endpoints given as the names from and to
OwnTable(act, g) ==
    IF act = NODES THEN get_vertex_dataframe(g)
    ELSE Frame({"from", "to"} \cup DOMAIN g.eattr,
               [k \in 1..Len(g.edges) |->
                   [lab |-> k - 1,
                    val |-> [c \in {"from", "to"} \cup DOMAIN g.eattr |->
                                IF c = "from" THEN g.vattr["name"][g.edges[k][1] + 1]
                                ELSE IF c = "to" THEN g.vattr["name"][g.edges[k][2] + 1]
                                ELSE g.eattr[c][k]]]])

\* the attributes a mutation names: a new one and one that the vertices of
\* NodeGraphs and the edges of EdgeGraphs have
MutateNames == {"label", "color"}

\* the columns a mutation derives its values from; the vertex table has no
\* column color on EdgeGraphs, the edge table has no column name
MutateSources == {"name", "color"}

\* ------------------------------------------------------------ behaviour

\* the record of a call before any call is made on the graph g
NoCall(g) ==
    [how |-> "none", act |-> NODES, y |-> Frame({}, <<>>), on |-> OnNone,
     lsuffix |-> ".x", rsuffix |-> ".y", ok |-> TRUE, err |-> "none", pre |-> g,
     data |-> Frame({}, <<>>), table |-> Frame({}, <<>>), named |-> {},
     first |-> [how |-> "none", act |-> NODES, ok |-> TRUE, pre |-> g]]

Init ==
    /\ graph \in NodeGraphs \cup EdgeGraphs
    /\ active = NODES
    /\ pc = "ready"
    /\ call = NoCall(graph)
    /\ last = "never"

\* Tidygraph.activate(what) that returns self without storing what
ActivateUnstored(what) ==
    /\ pc \in {"ready", "mutated"}
    /\ last' = what
    /\ pc' = IF pc = "mutated" THEN "reactivated" ELSE pc
    /\ UNCHANGED <<graph, call, active>>

\* Tidygraph.activate(what)
Activate(what) ==
    /\ pc \in {"ready", "mutated"}
    /\ active' = what
    /\ last' = what
    /\ pc' = IF pc = "mutated" THEN "reactivated" ELSE pc
    /\ UNCHANGED <<graph, call>>

\* Tidygraph.join(df, on, how, lsuffix, rsuffix)
Join(df, on, how, lsuffix, rsuffix) ==
    /\ pc = "ready"
    /\ LET r == join(active, graph, df, on, how, lsuffix, rsuffix)
       IN  /\ graph' = r.g
           /\ call' = [how |-> how, act |-> active, y |-> df, on |-> on,
                       lsuffix |-> lsuffix, rsuffix |-> rsuffix,
                       ok |-> r.ok, err |-> r.err, pre |-> graph, data |-> r.data,
                       table |-> TableAfter(active, graph, df, how), named |-> {},
                       first |-> call.first]
    /\ pc' = "done"
    /\ UNCHANGED <<active, last>>

\* Tidygraph.mutate(**{attr: lambda x: x[src] + "!"})
Mutate(attr, src) ==
    /\ pc \in {"ready", "mutated", "reactivated"}
    /\ LET r == mutate(active, graph, attr, src)
       IN  /\ graph' = r.g
           /\ call' = [how |-> "mutate", act |-> active, y |-> Frame({}, <<>>), on |-> <<src>>,
                       lsuffix |-> ".x", rsuffix |-> ".y",
                       ok |-> r.ok, err |-> r.err, pre |-> graph, data |-> r.data,
                       table |-> Frame({}, <<>>), named |-> {attr},
                       first |-> [how |-> call.how, act |-> call.act, ok |-> call.ok,
                                  pre |-> call.pre]]
    /\ pc' = IF pc = "ready" THEN "mutated" ELSE "chained"
    /\ UNCHANGED <<active, last>>

\* the calls every family of tables is explored from: those on a new
\* Tidygraph or after activate(EDGES); after activate(NODES) the context
\* is the one a new Tidygraph starts in
AllFamilies == pc = "ready" /\ last # NODES

\* the other calls, explored with the one-row tables
OneRowOnly == pc = "ready" /\ ~AllFamilies

Next ==
    \/ \E what \in {NODES, EDGES} : Activate(what)
    \/ AllFamilies /\ \E df \in Tables(active), how \in JoinKinds :
          Join(df, OnNone, how, ".x", ".y")
    \/ AllFamilies /\ \E df \in IndexTables(active), how \in JoinKinds :
          Join(df, OnNone, how, ".x", ".y")
    \/ AllFamilies /\ \E df \in ReservedTables(active), how \in JoinKinds :
          Join(df, OnNone, how, ".x", ".y")
    \/ AllFamilies /\ \E df \in IncompleteTables(active), how \in JoinKinds :
          Join(df, OnNone, how, ".x", ".y")
    \/ AllFamilies /\ \E df \in OneRowTables(active), how \in UnknownKinds :
          Join(df, OnNone, how, ".x", ".y")
    \/ AllFamilies /\ OnInX(active, graph, AttributeOn) /\ \E df \in OnTables(active), how \in JoinKinds :
          Join(df, AttributeOn, how, ".x", ".y")
    \/ AllFamilies /\ \E how \in JoinKinds : Join(EmptyTable(active), OnNone, how, ".x", ".y")
    \/ /\ AllFamilies
       /\ NRows(OwnTable(active, graph)) > 0
       /\ Join(OwnTable(active, graph), OnNone, "left", ".x", ".y")
    \/ OneRowOnly /\ \E df \in OneRowTables(active), how \in JoinKinds :
          Join(df, OnNone, how, ".x", ".y")
    \/ \E attr \in MutateNames, src \in MutateSources : Mutate(attr, src)

Spec == Init /\ [][Next]_vars

\* ------------------------------------------------------------ properties

\* a join of kind how on the context act has returned without raising
Returned(how, act) == pc = "done" /\ call.how = how /\ call.act = act /\ call.ok

\* the names of the vertices by ID; a graph left without the attribute name
\* has none
NamesOf(g) == IF "name" \in DOMAIN g.vattr THEN g.vattr["name"] ELSE [k \in 1..g.n |-> NA]

IsPrefix(s, t) == Len(s) <= Len(t) /\ \A k \in 1..Len(s) : s[k] = t[k]

\* what follows the first n elements of s
After(s, n) == [k \in 1..(Len(s) - n) |-> s[n + k]]

\* the names the rows of the caller table give, in row order
YNameSeq == [k \in 1..NRows(call.y) |-> call.y.rows[k].val["name"]]

\* the names among names that no vertex had before the call, in order
Unknown(names) == SelectSeq(names, LAMBDA n : n \notin Range(NamesOf(call.pre)))

\* C1: after a node outer join every vertex that existed before the call has
\* the ID and the name it had, and the vertices made for the Y rows that
\* match no vertex follow them in the order of these rows in Y
C1_OuterKeepsIdsAndYOrder ==
    Returned("outer", NODES) =>
        /\ IsPrefix(NamesOf(call.pre), NamesOf(graph))
        /\ Unknown(After(NamesOf(graph), call.pre.n)) = Unknown(YNameSeq)

\* the attributes and the number of entities of the context act
AttrsOf(g, act) == IF act = NODES THEN g.vattr ELSE g.eattr

CountOf(g, act) == IF act = NODES THEN g.n ELSE Len(g.edges)

\* the name the attribute c of before the call is stored under after it: its
\* own, or with the left suffix
HeldUnder(c) ==
    IF c \o call.lsuffix \in DOMAIN AttrsOf(graph, call.act) THEN c \o call.lsuffix ELSE c

\* every entity of before the call holds its own values of the attributes
\* stored before the call
OwnValuesKept ==
    \A c \in DOMAIN AttrsOf(call.pre, call.act) :
        /\ HeldUnder(c) \in DOMAIN AttrsOf(graph, call.act)
        /\ IsPrefix(AttrsOf(call.pre, call.act)[c], AttrsOf(graph, call.act)[HeldUnder(c)])

\* C2: after a successful join every vertex or edge of before the call that
\* survives holds its own values of the attributes stored before, under the
\* same name or the left-suffixed one; stated for the joins that delete
\* nothing, left and outer, after which entity i is the entity i of before
C2_OwnAttributesKept ==
    \A how \in {"left", "outer"}, act \in {NODES, EDGES} :
        Returned(how, act) /\ CountOf(call.pre, act) > 0 => OwnValuesKept

\* the reserved names of the context act
Reserved(act) == IF act = NODES THEN ReservedNodes ELSE ReservedEdges

\* the column c of the frame df is missing in every row
AllMissing(df, c) == \A k \in 1..NRows(df) : df.rows[k].val[c] = NAof(c)

\* C3: after a successful join the attribute names stored for the active
\* context are exactly the columns of the merged table that are not reserved:
\* an attribute of before the call that is no column of the merged table is
\* gone, and no column missing in every row is stored
C3_StoredNamesAreMergedColumns ==
    pc = "done" /\ call.ok =>
        /\ DOMAIN AttrsOf(graph, call.act) = call.data.cols \ Reserved(call.act)
        /\ \A c \in DOMAIN AttrsOf(call.pre, call.act) :
              c \notin call.data.cols => c \notin DOMAIN AttrsOf(graph, call.act)
        /\ \A c \in DOMAIN AttrsOf(graph, call.act) : ~AllMissing(call.data, c)

\* a join has replaced the stored attributes: one of before the call is gone
\* and one the caller table brought is stored
C3_Witness ==
    /\ pc = "done" /\ call.ok
    /\ \E c \in DOMAIN AttrsOf(call.pre, call.act) : c \notin DOMAIN AttrsOf(graph, call.act)
    /\ \E c \in DOMAIN AttrsOf(graph, call.act) : c \notin DOMAIN AttrsOf(call.pre, call.act)

\* the endpoint pairs the rows of the caller table name, by vertex ID in the
\* graph of before the call, as that graph reports an edge between them
YPairSeq ==
    [k \in 1..NRows(call.y) |->
        Endpoints(call.pre.directed,
                  Seq2(NameToIndex(call.pre, call.y.rows[k].val["from"]),
                       NameToIndex(call.pre, call.y.rows[k].val["to"])))]

\* how many times e occurs in the sequence s
Count(s, e) == Cardinality({k \in 1..Len(s) : s[k] = e})

\* the pairs among pairs that were no edge before the call, in order
NoEdgeBefore(pairs) == SelectSeq(pairs, LAMBDA e : e \notin Range(call.pre.edges))

\* the sequences s and t hold the same elements the same number of times
SameBag(s, t) == \A e \in Range(s) \cup Range(t) : Count(s, e) = Count(t, e)

\* C4: after an edge outer join the edges of before the call are all there,
\* with the IDs they had, and each Y row whose pair was no edge adds exactly
\* one edge after them
C4_OuterIsUnion ==
    Returned("outer", EDGES) =>
        /\ IsPrefix(call.pre.edges, graph.edges)
        /\ SameBag(NoEdgeBefore(After(graph.edges, Len(call.pre.edges))),
                   NoEdgeBefore(YPairSeq))

\* the undirected graph with the edges (a,b) and (b,c) was outer-joined with
\* the single row (a,c) and has the three edges (a,b), (b,c), (a,c)
C4_Witness ==
    /\ Returned("outer", EDGES)
    /\ ~call.pre.directed
    /\ NamesOf(call.pre) = <<"a", "b", "c">>
    /\ call.pre.edges = <<Seq2(0, 1), Seq2(1, 2)>>
    /\ YPairSeq = <<Seq2(0, 2)>>
    /\ graph.edges = <<Seq2(0, 1), Seq2(1, 2), Seq2(0, 2)>>

\* the names of before the call that the caller table names, in ID order
Named(names) == SelectSeq(names, LAMBDA n : n \in Range(YNameSeq))

\* what C5 says of the graph a node right join leaves: one vertex per row of
\* Y; the vertices not named in Y gone and the others first, in their order;
\* then the vertices made for the names that were not in the graph, in the
\* order of Y
OneVertexPerRow ==
    /\ graph.n = NRows(call.y)
    /\ Range(NamesOf(graph)) = Range(YNameSeq)
    /\ IsPrefix(Named(NamesOf(call.pre)), NamesOf(graph))
    /\ Unknown(NamesOf(graph)) = Unknown(YNameSeq)

\* C5: after a node right join the graph holds exactly one vertex per row of
\* Y: the existing vertices whose name is not in Y are deleted, the others
\* survive, and the Y names that were not in the graph are new vertices after
\* them, in the order of Y
C5_RightOneVertexPerRow == Returned("right", NODES) => OneVertexPerRow

\* C6: after an edge right join the edge count is the number of rows of Y:
\* the existing edges whose pair is not in Y are deleted, and the Y rows
\* whose pair was no edge add one edge each, in the order of Y
C6_RightOneEdgePerRow ==
    Returned("right", EDGES) =>
        /\ Len(graph.edges) = NRows(call.y)
        /\ Range(graph.edges) = Range(YPairSeq)
        /\ NoEdgeBefore(graph.edges) = NoEdgeBefore(YPairSeq)

\* C7: after a node inner join the surviving vertices are exactly the
\* existing vertices whose name occurs in Y, and a Y name that is not in the
\* graph adds no vertex
C7_InnerKeepsNamedVertices ==
    Returned("inner", NODES) =>
        /\ IsPrefix(Named(NamesOf(call.pre)), NamesOf(graph))
        /\ Range(NamesOf(graph)) = Range(Named(NamesOf(call.pre)))

\* C8: after an edge inner join every existing edge whose pair matches no Y
\* row is deleted, each parallel copy included, every matched edge is kept,
\* and the Y rows naming pairs that were no edges add nothing
C8_InnerDeletesUnmatchedEdges ==
    Returned("inner", EDGES) =>
        /\ \A e \in Range(graph.edges) : e \in Range(YPairSeq)
        /\ \A e \in Range(call.pre.edges) \cap Range(YPairSeq) :
              Count(graph.edges, e) >= Count(call.pre.edges, e)
        /\ Range(graph.edges) \subseteq Range(call.pre.edges)

\* the value the entity with ID i - 1 of the active context holds for the
\* attribute d after the call, missing when there is no such attribute
Held(d, i) ==
    IF d \in DOMAIN AttrsOf(graph, call.act) THEN AttrsOf(graph, call.act)[d][i] ELSE NA

\* the value it held before the call
HeldBefore(c, i) ==
    IF c \in DOMAIN AttrsOf(call.pre, call.act) THEN AttrsOf(call.pre, call.act)[c][i] ELSE NA

\* the entity with ID i - 1 holds no value of the columns cols of the caller
\* table: under the right-suffixed name nothing, under the column's own name
\* nothing or what it held before the call
NoValueOfY(cols, i) ==
    \A c \in cols :
        /\ Held(c \o call.rsuffix, i) = NA
        /\ Held(c, i) = NA \/ Held(c, i) = HeldBefore(c, i)

\* the vertices that no row of Y names hold missing values for Y's columns
UnnamedVerticesMissY ==
    \A i \in 1..call.pre.n :
        NamesOf(call.pre)[i] \notin Range(YNameSeq) => NoValueOfY(call.y.cols \ {"name"}, i)

UnnamedEdgesMissY ==
    \A i \in 1..Len(call.pre.edges) :
        call.pre.edges[i] \notin Range(YPairSeq) => NoValueOfY(call.y.cols \ {"from", "to"}, i)

Upto(n) == [k \in 1..n |-> k]

\* the values of the column c in the rows of the caller table named n, in
\* row order
ValuesGiven(c, n) ==
    LET ks == SelectSeq(Upto(NRows(call.y)), LAMBDA k : call.y.rows[k].val["name"] = n)
    IN  [j \in 1..Len(ks) |-> call.y.rows[ks[j]].val[c]]

\* the values of the attribute c the vertices named n hold after the call,
\* in ID order
ValuesHeld(c, n) ==
    LET is == SelectSeq(Upto(graph.n), LAMBDA i : NamesOf(graph)[i] = n)
    IN  [j \in 1..Len(is) |-> Held(c, is[j])]

\* C11: a node outer or right join whose Y gives the name of an existing
\* vertex in k > 1 rows returns, and leaves exactly k vertices of that name:
\* the first holds the values of the first of these rows and each further one
\* the values of the next row; stated for a Y that shares no column but name
\* with the vertex table
C11_NodeExplosion ==
    pc = "done" /\ call.act = NODES /\ call.how \in {"outer", "right"}
        /\ call.y.cols \cap DOMAIN call.pre.vattr = {"name"} =>
            \A n \in Range(NamesOf(call.pre)) :
                Count(YNameSeq, n) > 1 =>
                    /\ call.ok
                    /\ Count(NamesOf(graph), n) = Count(YNameSeq, n)
                    /\ \A c \in call.y.cols \ {"name"} : ValuesHeld(c, n) = ValuesGiven(c, n)

\* no row of the caller table of an edge join names a vertex the graph of
\* before the call does not have
AllEndsKnown ==
    /\ {"from", "to"} \subseteq call.y.cols
    /\ \A k \in 1..NRows(call.y) :
            /\ NameToIndex(call.pre, call.y.rows[k].val["from"]) # -1
            /\ NameToIndex(call.pre, call.y.rows[k].val["to"]) # -1

\* C12: an edge join, of any kind, whose Y names one existing edge in k > 1
\* rows (on an undirected graph in either orientation) returns and leaves
\* exactly k edges with these endpoints: the continuation and k - 1 new
\* parallel edges
C12_EdgeExplosion ==
    pc = "done" /\ call.act = EDGES /\ call.how \in JoinKinds /\ AllEndsKnown =>
        \A e \in Range(call.pre.edges) :
            Count(call.pre.edges, e) = 1 /\ Count(YPairSeq, e) > 1 =>
                /\ call.ok
                /\ Count(graph.edges, e) = Count(YPairSeq, e)

\* C13: an edge join of any kind on an undirected graph whose Y names an
\* existing edge in exactly one row, in either orientation, a self-loop
\* included, returns and leaves that edge exactly once in the edge table
C13_NoMirroredDuplicate ==
    pc = "done" /\ call.act = EDGES /\ call.how \in JoinKinds /\ ~call.pre.directed
        /\ AllEndsKnown =>
            \A e \in Range(call.pre.edges) :
                Count(call.pre.edges, e) = 1 /\ Count(YPairSeq, e) = 1 =>
                    /\ call.ok
                    /\ Count(graph.edges, e) = 1

\* the caller table of the call with the endpoints of its k-th row exchanged
Reversed(k) ==
    Frame(call.y.cols,
          [j \in 1..NRows(call.y) |->
              IF j = k
              THEN [call.y.rows[j] EXCEPT !.val["from"] = call.y.rows[j].val["to"],
                                          !.val["to"] = call.y.rows[j].val["from"]]
              ELSE call.y.rows[j]])

\* the edges of g, each with the values of its attributes, by ID
EdgeRows(g) ==
    [i \in 1..Len(g.edges) |-> [ends |-> g.edges[i], val |-> [c \in DOMAIN g.eattr |-> g.eattr[c][i]]]]

\* the join of the call made on the graph of before the call with the table y
Rejoined(y) == join(call.act, call.pre, y, call.on, call.how, call.lsuffix, call.rsuffix)

\* the outcome r is the outcome of the call: both raise, or both return and
\* leave the same edges with the same attribute values
SameOutcome(r) ==
    /\ r.ok = call.ok
    /\ call.ok => SameBag(EdgeRows(r.g), EdgeRows(graph))

\* C14: on an undirected graph an edge join of any kind has the outcome of
\* the same join with one row of Y written in the other orientation: the same
\* multiset of edges with the same attribute values
C14_UndirectedSymmetry ==
    pc = "done" /\ call.act = EDGES /\ call.how \in JoinKinds /\ ~call.pre.directed
        /\ AllEndsKnown =>
            \A k \in 1..NRows(call.y) : SameOutcome(Rejoined(Reversed(k)))

\* the attribute columns of the caller table of an edge join
YEdgeCols == call.y.cols \ {"from", "to"}

\* the name the column c of the caller table is stored under: with the
\* right suffix when the edges had an attribute c before the call
StoredAs(c) == IF c \in DOMAIN call.pre.eattr THEN c \o call.rsuffix ELSE c

\* the rows of the caller table whose pair was no edge before the call: the
\* pair and the values of the attribute columns
RowsOfNewPairs ==
    LET ks == SelectSeq(Upto(NRows(call.y)), LAMBDA k : YPairSeq[k] \notin Range(call.pre.edges))
    IN  [j \in 1..Len(ks) |->
            [ends |-> YPairSeq[ks[j]], val |-> [c \in YEdgeCols |-> call.y.rows[ks[j]].val[c]]]]

\* the edges after the call whose pair was no edge before it: the pair and
\* the values held for the columns of the caller table
NewPairsHeld ==
    LET is == SelectSeq(Upto(Len(graph.edges)), LAMBDA i : graph.edges[i] \notin Range(call.pre.edges))
    IN  [j \in 1..Len(is) |->
            [ends |-> graph.edges[is[j]], val |-> [c \in YEdgeCols |-> Held(StoredAs(c), is[j])]]]

\* C15: after an edge outer join the edges added for the Y rows whose pair
\* was no edge carry the attribute values of their own row, under the
\* column's name or, when the edges already had an attribute of that name,
\* under the right-suffixed name; and the edges of before the call that no
\* row names hold missing values for Y's columns
C15_OuterEdgeValues ==
    Returned("outer", EDGES) /\ AllEndsKnown =>
        /\ SameBag(NewPairsHeld, RowsOfNewPairs)
        /\ UnnamedEdgesMissY

\* the key of the entity with ID i - 1 of before the call, and the key the
\* k-th row of the caller table names
KeyBefore(i) == IF call.act = NODES THEN NamesOf(call.pre)[i] ELSE call.pre.edges[i]

KeyGiven(k) == IF call.act = NODES THEN YNameSeq[k] ELSE YPairSeq[k]

\* the attribute columns of the caller table that the active context had as
\* attributes before the call
SharedCols == (call.y.cols \ {"name", "from", "to"}) \cap DOMAIN AttrsOf(call.pre, call.act)

\* the rows of the caller table that name the entity with ID i - 1
RowsNaming(i) == {k \in 1..NRows(call.y) : KeyGiven(k) = KeyBefore(i)}

\* the only entity with its key, named by the only row k, holds the graph's
\* value of c under the left-suffixed name and the row's under the
\* right-suffixed name
BothValuesHeld(c, i, k) ==
    /\ Held(c \o call.lsuffix, i) = HeldBefore(c, i)
    /\ Held(c \o call.rsuffix, i) = call.y.rows[k].val[c]

\* C16: a left join with on not given matches on the identity key alone: an
\* entity that exactly one row of Y names by its key holds, for every
\* attribute column of Y that the active context already had, both values,
\* its own under the left-suffixed name and the row's under the
\* right-suffixed name, whatever the two values are
C16_MatchOnIdentityKeyOnly ==
    pc = "done" /\ call.how = "left" /\ call.on = OnNone
        /\ (call.act = EDGES => AllEndsKnown) =>
            /\ call.ok
            /\ \A i \in 1..CountOf(call.pre, call.act) :
                  Cardinality({j \in 1..CountOf(call.pre, call.act) : KeyBefore(j) = KeyBefore(i)}) = 1 =>
                      \A k \in RowsNaming(i), c \in SharedCols :
                          RowsNaming(i) = {k} => BothValuesHeld(c, i, k)

\* C17: a left join of a graph with its own current table returns and leaves
\* the graph as it was: the same vertices, the same edges, the same attribute
\* names and values
C17_SelfLeftJoinChangesNothing ==
    pc = "done" /\ call.how = "left" /\ call.y = OwnTable(call.act, call.pre) =>
        /\ call.ok
        /\ graph = call.pre

\* C18: an edge right join or an edge outer join whose Y names a vertex that
\* the graph does not have raises, and the graph is as it was before the
\* call: no edge added or deleted, no attribute changed, no vertex created
C18_UnknownVertexRaises ==
    pc = "done" /\ call.act = EDGES /\ call.how \in {"right", "outer"}
        /\ {"from", "to"} \subseteq call.y.cols /\ ~AllEndsKnown =>
        /\ ~call.ok
        /\ graph = call.pre

\* an edge outer join of a graph with an edge was given a row naming the
\* unknown vertex z after a row naming a new pair of known vertices, and has
\* raised
C18_Witness ==
    /\ pc = "done" /\ call.act = EDGES /\ call.how = "outer" /\ ~call.ok
    /\ Len(call.pre.edges) > 0
    /\ NRows(call.y) = 2
    /\ call.y.rows[1].val["to"] = "c"
    /\ call.y.rows[2].val["to"] = "z"

\* C19: a join in edge context, of any kind, returning or raising, leaves the
\* vertex table as it was: the same number of vertices, the same vertex
\* attributes with the same values
C19_EdgeJoinKeepsVertices ==
    pc = "done" /\ call.act = EDGES =>
        /\ graph.n = call.pre.n
        /\ graph.vattr = call.pre.vattr

\* an edge right join has returned after deleting an edge and adding another
C19_Witness ==
    /\ Returned("right", EDGES)
    /\ \E e \in Range(call.pre.edges) : e \notin Range(graph.edges)
    /\ \E e \in Range(graph.edges) : e \notin Range(call.pre.edges)

\* C20: a join, of any kind and in either context, with a caller table that
\* has a column named _index raises TidygraphValueError and leaves the
\* graph's vertices, edges and attributes as they were
C20_IndexColumnRaises ==
    pc = "done" /\ RESERVED_JOIN_KEYWORD \in call.y.cols =>
        /\ ~call.ok
        /\ call.err = "TidygraphValueError"
        /\ graph = call.pre

\* an edge right join of a graph with an edge was given a table with the
\* column _index naming a pair that is no edge, and has raised
C20_Witness ==
    /\ pc = "done" /\ call.act = EDGES /\ call.how = "right" /\ ~call.ok
    /\ RESERVED_JOIN_KEYWORD \in call.y.cols
    /\ call.pre.edges = <<Seq2(0, 1)>>
    /\ call.y.rows[1].val["to"] = "c"

\* the names reserved in either context, the join-tracking key apart
ReservedNames == ReservedNodes \cup ReservedEdges

\* the columns a caller table needs in the context act
Required(act) == IF act = NODES THEN {"name"} ELSE {"from", "to"}

\* C21: a join with a caller table that has a reserved name as an attribute
\* column (the vertex or the edge identity column, "source", "target" and, in
\* node context, "from" and "to") raises, and the graph is as it was
C21_ReservedColumnRaises ==
    pc = "done" /\ call.how \in JoinKinds
        /\ (call.y.cols \ Required(call.act)) \cap ReservedNames # {} =>
            /\ ~call.ok
            /\ graph = call.pre

\* C22: a join with a caller table that lacks a column the context active at
\* the call requires ("name" for nodes, "from" and "to" for edges) raises
\* TidygraphValueError and leaves the graph as it was
C22_MissingColumnRaises ==
    pc = "done" /\ call.how \in JoinKinds /\ ~(Required(call.act) \subseteq call.y.cols) =>
        /\ ~call.ok
        /\ call.err = "TidygraphValueError"
        /\ graph = call.pre

\* a table with the column "name", which a node join accepts, was given to a
\* join made after activate(EDGES) on a graph with an edge, and the join has
\* raised
C22_Witness ==
    /\ pc = "done" /\ call.act = EDGES /\ active = EDGES /\ ~call.ok
    /\ call.y.cols = {"name"}
    /\ Len(call.pre.edges) > 0

\* C23: a join with a how other than inner, left, right or outer raises
\* TidygraphValueError, and no vertex, edge or attribute differs after the
\* call
C23_UnknownKindRaises ==
    pc = "done" /\ call.how \notin JoinKinds =>
        /\ ~call.ok
        /\ call.err = "TidygraphValueError"
        /\ graph = call.pre

\* an edge join of a kind not known was made with a table that has the
\* required columns and an attribute column, on a graph with an edge, and
\* has raised
C23_Witness ==
    /\ pc = "done" /\ call.how = "cross" /\ call.act = EDGES /\ ~call.ok
    /\ call.y.cols = {"from", "to", "color"}
    /\ Len(call.pre.edges) > 0

\* the identity key of the context act as a value of on
IdentityOn(act) == IF act = NODES THEN <<"name">> ELSE <<"from", "to">>

\* C24: a join with an on that is given and is not the identity key of the
\* active context raises and leaves the graph as it was
C24_OtherOnRaises ==
    pc = "done" /\ call.how \in JoinKinds /\ call.on \notin {OnNone, IdentityOn(call.act)} =>
        /\ ~call.ok
        /\ graph = call.pre

\* C25: a join call that raises, for whatever reason and wherever in the
\* call, leaves the graph exactly as it was before the call: the same
\* vertices, edges and attributes
C25_RaiseChangesNothing ==
    pc = "done" /\ ~call.ok => graph = call.pre

C27_NamesStayUnique ==
    pc = "done" /\ call.ok /\ NamesUnique(call.pre) => NamesUnique(graph)

\* the context of the latest activate call, NODES when there was none
Activated == IF last = "never" THEN NODES ELSE last

\* C28: a join or mutate call acts on the context of the latest activate
\* call, on NODES when there was none, and a mutate that returns leaves the
\* attribute it names in that context; in a chain of a mutate after
\* activate(EDGES) and a mutate after activate(NODES) the first leaves the
\* vertex attributes as they were and the second the edge attributes
C28_ActsOnActivatedContext ==
    /\ pc \in {"done", "mutated", "chained"} => call.act = Activated
    /\ pc \in {"mutated", "chained"} /\ call.ok =>
           call.named \subseteq DOMAIN AttrsOf(graph, Activated)
    /\ pc = "chained" /\ call.first.how = "mutate" /\ call.first.act = EDGES /\ last = NODES =>
           /\ call.pre.vattr = call.first.pre.vattr
           /\ graph.eattr = call.pre.eattr

\* the chain activate(EDGES).mutate(..).activate(NODES).mutate(..) has
\* returned, the first mutate having changed the edge attributes and the
\* second the vertex attributes
C28_Witness ==
    /\ pc = "chained" /\ last = NODES
    /\ call.first.how = "mutate" /\ call.first.act = EDGES /\ call.first.ok
    /\ call.how = "mutate" /\ call.act = NODES /\ call.ok
    /\ call.pre.eattr # call.first.pre.eattr
    /\ graph.vattr # call.pre.vattr
    /\ graph.eattr = call.pre.eattr

\* the context that is not act
OtherContext(act) == IF act = NODES THEN EDGES ELSE NODES

\* the attributes of the context the call acted on that the call does not
\* name are the same, with the same values, after the call as before
UnnamedKept ==
    \A c \in (DOMAIN AttrsOf(graph, call.act) \cup DOMAIN AttrsOf(call.pre, call.act)) \ call.named :
        /\ c \in DOMAIN AttrsOf(graph, call.act)
        /\ c \in DOMAIN AttrsOf(call.pre, call.act)
        /\ AttrsOf(graph, call.act)[c] = AttrsOf(call.pre, call.act)[c]

\* C29: after a mutate the vertex count, the edge list and the attributes of
\* the other context are as before the call, in the active context only the
\* attribute named in the call is added or changed, and a mutate that raises
\* leaves the graph as it was
C29_MutateChangesOnlyNamed ==
    pc \in {"mutated", "chained"} =>
        /\ graph.n = call.pre.n
        /\ graph.directed = call.pre.directed
        /\ graph.edges = call.pre.edges
        /\ AttrsOf(graph, OtherContext(call.act)) = AttrsOf(call.pre, OtherContext(call.act))
        /\ UnnamedKept
        /\ ~call.ok => graph = call.pre

\* a mutate on three vertices with a color and two edges has returned and
\* added the attribute label
C29_Witness ==
    /\ pc = "mutated" /\ call.ok /\ call.act = NODES
    /\ call.pre.n = 3 /\ Len(call.pre.edges) = 2
    /\ "color" \in DOMAIN call.pre.vattr
    /\ call.named = {"label"}
    /\ "label" \in DOMAIN graph.vattr /\ "label" \notin DOMAIN call.pre.vattr

\* the IDs of the vertices a node inner or right join deletes: the rows of
\* its to_remove
DeletedIds ==
    LET x == XFrame(NODES, call.pre)
        y == IF call.how = "inner" THEN call.y ELSE SortedY(NODES, call.pre, call.y)
        to_remove == ToRemove(NODES, call.pre, x, y, JoinOn(NODES, x, y, call.on),
                              call.lsuffix, call.rsuffix)
    IN  {to_remove.rows[k].val["_index"] : k \in 1..NRows(to_remove)}

\* the edges of g as pairs of vertex names
NamedEdges(g) ==
    [k \in 1..Len(g.edges) |-> Seq2(NamesOf(g)[g.edges[k][1] + 1], NamesOf(g)[g.edges[k][2] + 1])]

\* the edges before the call that touch no deleted vertex, as pairs of names
SurvivingEdges ==
    LET pre == call.pre
        kept == SelectSeq(pre.edges, LAMBDA e : e[1] \notin DeletedIds /\ e[2] \notin DeletedIds)
    IN  [k \in 1..Len(kept) |-> Seq2(NamesOf(pre)[kept[k][1] + 1], NamesOf(pre)[kept[k][2] + 1])]

\* C30: after a node inner or right join that deletes vertices, the edges
\* left are the edges that touched no deleted vertex, in order, between the
\* vertices of the same names as before, and every edge joins two IDs below
\* the vertex count
C30_DeletionKeepsOtherEdges ==
    /\ pc = "done" /\ call.ok /\ call.act = NODES /\ call.how \in {"inner", "right"}
    /\ DeletedIds # {}
    => /\ NamedEdges(graph) = SurvivingEdges
       /\ \A k \in 1..Len(graph.edges) :
              graph.edges[k][1] \in 0..(graph.n - 1) /\ graph.edges[k][2] \in 0..(graph.n - 1)

====
